---- MODULE Spec2Model ----
(***************************************************************************)
(* Model of the medical VQA assistant: the term dictionary and response     *)
(* templates of medical_terms.py, and the MedicalVQASystem class and the    *)
(* main() script of streamlit_app.py.                                       *)
(*                                                                          *)
(* Python strings are sequences of characters; a character is a one-letter  *)
(* TLA+ string, and a non-ASCII character is written "U+XXXX" (its code     *)
(* point), so an Arabic letter never equals an ASCII one.                   *)
(***************************************************************************)
EXTENDS Integers, Sequences, FiniteSets, TLC

VARIABLES
    call,        \* medical_terms: the last function call, with its arguments
    ret,         \* medical_terms: what that call returned or raised
    processor,   \* MedicalVQASystem.processor
    model,       \* MedicalVQASystem.model
    device,      \* MedicalVQASystem.device
    pc,          \* position of the current run of main()
    uploaded_file, \* main(): the local variable uploaded_file
    widgets,     \* main(): the widget values of the current run
    rendered,    \* main(): the st.* outputs of the current run, in order
    result,      \* the dict the last process_query call returned
    history      \* what has happened to the cached system (observation only)

vars == <<call, ret, processor, model, device, pc, uploaded_file, widgets,
          rendered, result, history>>

termVars == <<call, ret>>
appVars == <<processor, model, device, pc, uploaded_file, widgets, rendered,
             result, history>>

-----------------------------------------------------------------------------
(* Bounds of the model *)

MaxWords == 2
MaxPasses == 2

-----------------------------------------------------------------------------
(* Python str operations *)

None == "None"

UPPER == <<"A","B","C","D","E","F","G","H","I","J","K","L","M","N","O","P","Q","R","S","T","U","V","W","X","Y","Z">>
LOWER == <<"a","b","c","d","e","f","g","h","i","j","k","l","m","n","o","p","q","r","s","t","u","v","w","x","y","z">>

LowerChar(c) ==
    IF \E i \in 1..Len(UPPER) : UPPER[i] = c
    THEN LOWER[CHOOSE i \in 1..Len(UPPER) : UPPER[i] = c]
    ELSE c

\* str.lower()
Lower(s) == [i \in 1..Len(s) |-> LowerChar(s[i])]

\* s.startswith(p, i - 1): p occurs in s at position i
OccursAt(s, p, i) ==
    /\ i + Len(p) - 1 <= Len(s)
    /\ \A j \in 1..Len(p) : s[i + j - 1] = p[j]

\* p in s
Contains(s, p) == \E i \in 1..(Len(s) - Len(p) + 1) : OccursAt(s, p, i)

\* the first position from i on at which p occurs in s, or 0 (str.find)
Find(s, p, i) ==
    LET hits == { j \in i..(Len(s) - Len(p) + 1) : OccursAt(s, p, j) }
    IN  IF hits = {} THEN 0 ELSE CHOOSE j \in hits : \A k \in hits : j <= k

\* s.replace(old, new): every non-overlapping occurrence, left to right
RECURSIVE ReplaceFrom(_, _, _, _)
ReplaceFrom(s, old, new, i) ==
    LET j == Find(s, old, i)
    IN  IF j = 0 THEN SubSeq(s, i, Len(s))
        ELSE SubSeq(s, i, j - 1) \o new \o ReplaceFrom(s, old, new, j + Len(old))

Replace(s, old, new) == ReplaceFrom(s, old, new, 1)

WHITESPACE == {" ", "\t", "\n"}

\* str.strip()
RECURSIVE LStrip(_)
LStrip(s) == IF s # <<>> /\ Head(s) \in WHITESPACE THEN LStrip(Tail(s)) ELSE s

RECURSIVE RStrip(_)
RStrip(s) ==
    IF s # <<>> /\ s[Len(s)] \in WHITESPACE
    THEN RStrip(SubSeq(s, 1, Len(s) - 1))
    ELSE s

Strip(s) == RStrip(LStrip(s))

-----------------------------------------------------------------------------
(* medical_terms.py: the tables *)

MEDICAL_TERMS_AR ==
    <<
    <<<<"h","e","a","r","t">>,
      <<"U+0627","U+0644","U+0642","U+0644","U+0628">>>>,
    <<<<"l","u","n","g">>,
      <<"U+0627","U+0644","U+0631","U+0626","U+0629">>>>,
    <<<<"l","u","n","g","s">>,
      <<"U+0627","U+0644","U+0631","U+0626","U+062A","U+064A","U+0646">>>>,
    <<<<"b","r","a","i","n">>,
      <<"U+0627","U+0644","U+0645","U+062E">>>>,
    <<<<"l","i","v","e","r">>,
      <<"U+0627","U+0644","U+0643","U+0628","U+062F">>>>,
    <<<<"k","i","d","n","e","y">>,
      <<"U+0627","U+0644","U+0643","U+0644","U+064A","U+0629">>>>,
    <<<<"s","t","o","m","a","c","h">>,
      <<"U+0627","U+0644","U+0645","U+0639","U+062F","U+0629">>>>,
    <<<<"c","h","e","s","t">>,
      <<"U+0627","U+0644","U+0635","U+062F","U+0631">>>>,
    <<<<"s","p","i","n","e">>,
      <<"U+0627","U+0644","U+0639","U+0645","U+0648","U+062F"," ","U+0627","U+0644","U+0641","U+0642",
       "U+0631","U+064A">>>>,
    <<<<"b","o","n","e">>,
      <<"U+0627","U+0644","U+0639","U+0638","U+0645">>>>,
    <<<<"b","o","n","e","s">>,
      <<"U+0627","U+0644","U+0639","U+0638","U+0627","U+0645">>>>,
    <<<<"r","i","b">>,
      <<"U+0627","U+0644","U+0636","U+0644","U+0639">>>>,
    <<<<"r","i","b","s">>,
      <<"U+0627","U+0644","U+0623","U+0636","U+0644","U+0627","U+0639">>>>,
    <<<<"f","r","a","c","t","u","r","e">>,
      <<"U+0643","U+0633","U+0631">>>>,
    <<<<"p","n","e","u","m","o","n","i","a">>,
      <<"U+0627","U+0644","U+062A","U+0647","U+0627","U+0628"," ","U+0631","U+0626","U+0648","U+064A">>>>,
    <<<<"t","u","m","o","r">>,
      <<"U+0648","U+0631","U+0645">>>>,
    <<<<"i","n","f","e","c","t","i","o","n">>,
      <<"U+0639","U+062F","U+0648","U+0649">>>>,
    <<<<"i","n","f","l","a","m","m","a","t","i","o","n">>,
      <<"U+0627","U+0644","U+062A","U+0647","U+0627","U+0628">>>>,
    <<<<"a","b","n","o","r","m","a","l">>,
      <<"U+063A","U+064A","U+0631"," ","U+0637","U+0628","U+064A","U+0639","U+064A">>>>,
    <<<<"n","o","r","m","a","l">>,
      <<"U+0637","U+0628","U+064A","U+0639","U+064A">>>>,
    <<<<"m","a","s","s">>,
      <<"U+0643","U+062A","U+0644","U+0629">>>>,
    <<<<"l","e","s","i","o","n">>,
      <<"U+0622","U+0641","U+0629">>>>,
    <<<<"s","w","e","l","l","i","n","g">>,
      <<"U+062A","U+0648","U+0631","U+0645">>>>,
    <<<<"x","-","r","a","y">>,
      <<"U+0623","U+0634","U+0639","U+0629"," ","U+0633","U+064A","U+0646","U+064A","U+0629">>>>,
    <<<<"c","t"," ","s","c","a","n">>,
      <<"U+0623","U+0634","U+0639","U+0629"," ","U+0645","U+0642","U+0637","U+0639","U+064A","U+0629">>>>,
    <<<<"m","r","i">>,
      <<"U+0631","U+0646","U+064A","U+0646"," ","U+0645","U+063A","U+0646","U+0627","U+0637","U+064A",
       "U+0633","U+064A">>>>,
    <<<<"u","l","t","r","a","s","o","u","n","d">>,
      <<"U+0645","U+0648","U+062C","U+0627","U+062A"," ","U+0641","U+0648","U+0642"," ","U+0635","U+0648",
       "U+062A","U+064A","U+0629">>>>,
    <<<<"s","c","a","n">>,
      <<"U+0641","U+062D","U+0635">>>>,
    <<<<"i","m","a","g","e">>,
      <<"U+0635","U+0648","U+0631","U+0629">>>>,
    <<<<"m","e","d","i","c","a","l"," ","i","m","a","g","e">>,
      <<"U+0635","U+0648","U+0631","U+0629"," ","U+0637","U+0628","U+064A","U+0629">>>>,
    <<<<"d","i","a","g","n","o","s","i","s">>,
      <<"U+062A","U+0634","U+062E","U+064A","U+0635">>>>,
    <<<<"t","r","e","a","t","m","e","n","t">>,
      <<"U+0639","U+0644","U+0627","U+062C">>>>,
    <<<<"m","e","d","i","c","a","t","i","o","n">>,
      <<"U+062F","U+0648","U+0627","U+0621">>>>,
    <<<<"d","o","c","t","o","r">>,
      <<"U+0637","U+0628","U+064A","U+0628">>>>,
    <<<<"h","o","s","p","i","t","a","l">>,
      <<"U+0645","U+0633","U+062A","U+0634","U+0641","U+0649">>>>,
    <<<<"p","a","t","i","e","n","t">>,
      <<"U+0645","U+0631","U+064A","U+0636">>>>,
    <<<<"s","y","m","p","t","o","m","s">>,
      <<"U+0623","U+0639","U+0631","U+0627","U+0636">>>>,
    <<<<"p","a","i","n">>,
      <<"U+0623","U+0644","U+0645">>>>,
    <<<<"f","e","v","e","r">>,
      <<"U+062D","U+0645","U+0649">>>>
    >>

TEMPLATE_EN_GENERAL ==
    <<"\n","B","a","s","e","d"," ","o","n"," ","t","h","e"," ","m","e","d","i","c","a","l"," ","i","m",
      "a","g","e"," ","a","n","a","l","y","s","i","s",","," ","I"," ","c","a","n"," ","p","r","o","v","i",
      "d","e"," ","g","e","n","e","r","a","l"," ","o","b","s","e","r","v","a","t","i","o","n","s","."," ",
      "H","o","w","e","v","e","r",","," ","p","l","e","a","s","e"," ","r","e","m","e","m","b","e","r",":",
      "\n","\n","U+1F3E5"," ","*","*","I","m","p","o","r","t","a","n","t"," ","M","e","d","i","c","a","l",
      " ","D","i","s","c","l","a","i","m","e","r",":","*","*","\n","-"," ","T","h","i","s"," ","i","s",
      " ","a","n"," ","A","I"," ","a","n","a","l","y","s","i","s"," ","f","o","r"," ","i","n","f","o","r",
      "m","a","t","i","o","n","a","l"," ","p","u","r","p","o","s","e","s"," ","o","n","l","y","\n","-",
      " ","A","l","w","a","y","s"," ","c","o","n","s","u","l","t"," ","w","i","t","h"," ","q","u","a","l",
      "i","f","i","e","d"," ","h","e","a","l","t","h","c","a","r","e"," ","p","r","o","f","e","s","s","i",
      "o","n","a","l","s","\n","-"," ","D","o"," ","n","o","t"," ","u","s","e"," ","t","h","i","s"," ",
      "f","o","r"," ","m","e","d","i","c","a","l"," ","d","i","a","g","n","o","s","i","s"," ","o","r"," ",
      "t","r","e","a","t","m","e","n","t"," ","d","e","c","i","s","i","o","n","s","\n","-"," ","S","e",
      "e","k"," ","i","m","m","e","d","i","a","t","e"," ","m","e","d","i","c","a","l"," ","a","t","t","e",
      "n","t","i","o","n"," ","f","o","r"," ","u","r","g","e","n","t"," ","h","e","a","l","t","h"," ","c",
      "o","n","c","e","r","n","s","\n","\n","F","o","r"," ","a"," ","p","r","o","p","e","r"," ","m","e",
      "d","i","c","a","l"," ","e","v","a","l","u","a","t","i","o","n",","," ","p","l","e","a","s","e"," ",
      "v","i","s","i","t"," ","a"," ","l","i","c","e","n","s","e","d"," ","h","e","a","l","t","h","c","a",
      "r","e"," ","p","r","o","v","i","d","e","r",".","\n"," "," "," "," "," "," "," "," "," "," "," ",
      " ">>

TEMPLATE_EN_IMAGE_ANALYSIS ==
    <<"\n","*","*","M","e","d","i","c","a","l"," ","I","m","a","g","e"," ","A","n","a","l","y","s","i",
      "s",":","*","*","\n","T","h","e"," ","i","m","a","g","e"," ","s","h","o","w","s"," ","v","a","r",
      "i","o","u","s"," ","a","n","a","t","o","m","i","c","a","l"," ","s","t","r","u","c","t","u","r","e",
      "s"," ","a","n","d"," ","f","i","n","d","i","n","g","s","."," ","K","e","y"," ","o","b","s","e","r",
      "v","a","t","i","o","n","s"," ","i","n","c","l","u","d","e"," ","m","e","d","i","c","a","l"," ","f",
      "e","a","t","u","r","e","s"," ","t","h","a","t"," ","s","h","o","u","l","d"," ","b","e"," ","e","v",
      "a","l","u","a","t","e","d"," ","b","y"," ","a"," ","q","u","a","l","i","f","i","e","d"," ","r","a",
      "d","i","o","l","o","g","i","s","t"," ","o","r"," ","p","h","y","s","i","c","i","a","n",".","\n",
      "\n","U+26A0","U+FE0F"," ","*","*","M","e","d","i","c","a","l"," ","D","i","s","c","l","a","i","m",
      "e","r",":","*","*"," ","T","h","i","s"," ","A","I"," ","a","n","a","l","y","s","i","s"," ","i","s",
      " ","n","o","t"," ","a"," ","s","u","b","s","t","i","t","u","t","e"," ","f","o","r"," ","p","r","o",
      "f","e","s","s","i","o","n","a","l"," ","m","e","d","i","c","a","l"," ","i","n","t","e","r","p","r",
      "e","t","a","t","i","o","n","."," ","P","l","e","a","s","e"," ","c","o","n","s","u","l","t"," ","w",
      "i","t","h"," ","h","e","a","l","t","h","c","a","r","e"," ","p","r","o","f","e","s","s","i","o","n",
      "a","l","s"," ","f","o","r"," ","a","c","c","u","r","a","t","e"," ","d","i","a","g","n","o","s","i",
      "s",".","\n"," "," "," "," "," "," "," "," "," "," "," "," ">>

TEMPLATE_AR_GENERAL ==
    <<"\n","U+0628","U+0646","U+0627","U+0621","U+064B"," ","U+0639","U+0644","U+0649"," ","U+062A",
      "U+062D","U+0644","U+064A","U+0644"," ","U+0627","U+0644","U+0635","U+0648","U+0631","U+0629"," ",
      "U+0627","U+0644","U+0637","U+0628","U+064A","U+0629","U+060C"," ","U+064A","U+0645","U+0643",
      "U+0646","U+0646","U+064A"," ","U+062A","U+0642","U+062F","U+064A","U+0645"," ","U+0645","U+0644",
      "U+0627","U+062D","U+0638","U+0627","U+062A"," ","U+0639","U+0627","U+0645","U+0629","."," ",
      "U+0648","U+0644","U+0643","U+0646"," ","U+064A","U+0631","U+062C","U+0649"," ","U+062A","U+0630",
      "U+0643","U+0631",":","\n","\n","U+1F3E5"," ","*","*","U+0625","U+062E","U+0644","U+0627","U+0621",
      " ","U+0645","U+0633","U+0624","U+0648","U+0644","U+064A","U+0629"," ","U+0637","U+0628","U+064A",
      "U+0629"," ","U+0645","U+0647","U+0645",":","*","*","\n","-"," ","U+0647","U+0630","U+0627"," ",
      "U+062A","U+062D","U+0644","U+064A","U+0644"," ","U+0630","U+0643","U+064A"," ","U+0644","U+0623",
      "U+063A","U+0631","U+0627","U+0636"," ","U+0625","U+0639","U+0644","U+0627","U+0645","U+064A",
      "U+0629"," ","U+0641","U+0642","U+0637","\n","-"," ","U+0627","U+0633","U+062A","U+0634","U+0631",
      " ","U+062F","U+0627","U+0626","U+0645","U+0627","U+064B"," ","U+0623","U+062E","U+0635","U+0627",
      "U+0626","U+064A","U+064A"," ","U+0627","U+0644","U+0631","U+0639","U+0627","U+064A","U+0629"," ",
      "U+0627","U+0644","U+0635","U+062D","U+064A","U+0629"," ","U+0627","U+0644","U+0645","U+0624",
      "U+0647","U+0644","U+064A","U+0646","\n","-"," ","U+0644","U+0627"," ","U+062A","U+0633","U+062A",
      "U+062E","U+062F","U+0645"," ","U+0647","U+0630","U+0627"," ","U+0644","U+0644","U+062A","U+0634",
      "U+062E","U+064A","U+0635"," ","U+0627","U+0644","U+0637","U+0628","U+064A"," ","U+0623","U+0648",
      " ","U+0642","U+0631","U+0627","U+0631","U+0627","U+062A"," ","U+0627","U+0644","U+0639","U+0644",
      "U+0627","U+062C","\n","-"," ","U+0627","U+0637","U+0644","U+0628"," ","U+0627","U+0644","U+0639",
      "U+0646","U+0627","U+064A","U+0629"," ","U+0627","U+0644","U+0637","U+0628","U+064A","U+0629"," ",
      "U+0627","U+0644","U+0641","U+0648","U+0631","U+064A","U+0629"," ","U+0644","U+0644","U+0645",
      "U+062E","U+0627","U+0648","U+0641"," ","U+0627","U+0644","U+0635","U+062D","U+064A","U+0629"," ",
      "U+0627","U+0644","U+0639","U+0627","U+062C","U+0644","U+0629","\n","\n","U+0644","U+0644","U+062D",
      "U+0635","U+0648","U+0644"," ","U+0639","U+0644","U+0649"," ","U+062A","U+0642","U+064A","U+064A",
      "U+0645"," ","U+0637","U+0628","U+064A"," ","U+0645","U+0646","U+0627","U+0633","U+0628","U+060C",
      " ","U+064A","U+0631","U+062C","U+0649"," ","U+0632","U+064A","U+0627","U+0631","U+0629"," ",
      "U+0645","U+0642","U+062F","U+0645"," ","U+0631","U+0639","U+0627","U+064A","U+0629"," ","U+0635",
      "U+062D","U+064A","U+0629"," ","U+0645","U+0631","U+062E","U+0635",".","\n"," "," "," "," "," "," ",
      " "," "," "," "," "," ">>

TEMPLATE_AR_IMAGE_ANALYSIS ==
    <<"\n","*","*","U+062A","U+062D","U+0644","U+064A","U+0644"," ","U+0627","U+0644","U+0635","U+0648",
      "U+0631","U+0629"," ","U+0627","U+0644","U+0637","U+0628","U+064A","U+0629",":","*","*","\n",
      "U+062A","U+064F","U+0638","U+0647","U+0631"," ","U+0627","U+0644","U+0635","U+0648","U+0631",
      "U+0629"," ","U+0647","U+064A","U+0627","U+0643","U+0644"," ","U+062A","U+0634","U+0631","U+064A",
      "U+062D","U+064A","U+0629"," ","U+0648","U+0646","U+062A","U+0627","U+0626","U+062C"," ","U+0645",
      "U+062E","U+062A","U+0644","U+0641","U+0629","."," ","U+062A","U+0634","U+0645","U+0644"," ",
      "U+0627","U+0644","U+0645","U+0644","U+0627","U+062D","U+0638","U+0627","U+062A"," ","U+0627",
      "U+0644","U+0631","U+0626","U+064A","U+0633","U+064A","U+0629"," ","U+0627","U+0644","U+0645",
      "U+064A","U+0632","U+0627","U+062A"," ","U+0627","U+0644","U+0637","U+0628","U+064A","U+0629"," ",
      "U+0627","U+0644","U+062A","U+064A"," ","U+064A","U+062C","U+0628"," ","U+062A","U+0642","U+064A",
      "U+064A","U+0645","U+0647","U+0627"," ","U+0645","U+0646"," ","U+0642","U+0628","U+0644"," ",
      "U+0623","U+062E","U+0635","U+0627","U+0626","U+064A"," ","U+0623","U+0634","U+0639","U+0629"," ",
      "U+0623","U+0648"," ","U+0637","U+0628","U+064A","U+0628"," ","U+0645","U+0624","U+0647","U+0644",
      ".","\n","\n","U+26A0","U+FE0F"," ","*","*","U+0625","U+062E","U+0644","U+0627","U+0621"," ",
      "U+0645","U+0633","U+0624","U+0648","U+0644","U+064A","U+0629"," ","U+0637","U+0628","U+064A",
      "U+0629",":","*","*"," ","U+0647","U+0630","U+0627"," ","U+0627","U+0644","U+062A","U+062D",
      "U+0644","U+064A","U+0644"," ","U+0627","U+0644","U+0630","U+0643","U+064A"," ","U+0644","U+064A",
      "U+0633"," ","U+0628","U+062F","U+064A","U+0644","U+0627","U+064B"," ","U+0639","U+0646"," ",
      "U+0627","U+0644","U+062A","U+0641","U+0633","U+064A","U+0631"," ","U+0627","U+0644","U+0637",
      "U+0628","U+064A"," ","U+0627","U+0644","U+0645","U+0647","U+0646","U+064A","."," ","U+064A",
      "U+0631","U+062C","U+0649"," ","U+0627","U+0633","U+062A","U+0634","U+0627","U+0631","U+0629"," ",
      "U+0623","U+062E","U+0635","U+0627","U+0626","U+064A","U+064A"," ","U+0627","U+0644","U+0631",
      "U+0639","U+0627","U+064A","U+0629"," ","U+0627","U+0644","U+0635","U+062D","U+064A","U+0629"," ",
      "U+0644","U+0644","U+062D","U+0635","U+0648","U+0644"," ","U+0639","U+0644","U+0649"," ","U+062A",
      "U+0634","U+062E","U+064A","U+0635"," ","U+062F","U+0642","U+064A","U+0642",".","\n"," "," "," ",
      " "," "," "," "," "," "," "," "," ">>

PROMPT_EN ==
    <<"A","n","a","l","y","z","e"," ","t","h","i","s"," ","m","e","d","i","c","a","l"," ","i","m","a","g",
      "e"," ","i","n"," ","d","e","t","a","i","l","."," ","D","e","s","c","r","i","b","e"," ","a","n","a",
      "t","o","m","i","c","a","l"," ","s","t","r","u","c","t","u","r","e","s",","," ","a","n","y"," ","v",
      "i","s","i","b","l","e"," ","a","b","n","o","r","m","a","l","i","t","i","e","s",","," ","a","n","d",
      " ","p","o","t","e","n","t","i","a","l"," ","m","e","d","i","c","a","l"," ","f","i","n","d","i","n",
      "g","s","."," ","U","s","e"," ","p","r","o","p","e","r"," ","m","e","d","i","c","a","l"," ","t","e",
      "r","m","i","n","o","l","o","g","y",".">>

PROMPT_AR ==
    <<"U+062D","U+0644","U+0644"," ","U+0647","U+0630","U+0647"," ","U+0627","U+0644","U+0635","U+0648",
      "U+0631","U+0629"," ","U+0627","U+0644","U+0637","U+0628","U+064A","U+0629"," ","U+0628","U+0627",
      "U+0644","U+062A","U+0641","U+0635","U+064A","U+0644","."," ","U+0635","U+0641"," ","U+0627",
      "U+0644","U+0647","U+064A","U+0627","U+0643","U+0644"," ","U+0627","U+0644","U+062A","U+0634",
      "U+0631","U+064A","U+062D","U+064A","U+0629"," ","U+0648","U+0623","U+064A"," ","U+062A","U+0634",
      "U+0648","U+0647","U+0627","U+062A"," ","U+0645","U+0631","U+0626","U+064A","U+0629"," ","U+0648",
      "U+0646","U+062A","U+0627","U+0626","U+062C"," ","U+0637","U+0628","U+064A","U+0629"," ","U+0645",
      "U+062D","U+062A","U+0645","U+0644","U+0629","."," ","U+0627","U+0633","U+062A","U+062E","U+062F",
      "U+0645"," ","U+0627","U+0644","U+0645","U+0635","U+0637","U+0644","U+062D","U+0627","U+062A"," ",
      "U+0627","U+0644","U+0637","U+0628","U+064A","U+0629"," ","U+0627","U+0644","U+0645","U+0646",
      "U+0627","U+0633","U+0628","U+0629",".">>

\* f"{en_term} ({ar_term})"
Annotation(en_term, ar_term) == en_term \o <<" ","(">> \o ar_term \o <<")">>

templates ==
    [en |-> [general |-> TEMPLATE_EN_GENERAL, image_analysis |-> TEMPLATE_EN_IMAGE_ANALYSIS],
     ar |-> [general |-> TEMPLATE_AR_GENERAL, image_analysis |-> TEMPLATE_AR_IMAGE_ANALYSIS]]

prompts == [en |-> PROMPT_EN, ar |-> PROMPT_AR]

-----------------------------------------------------------------------------
(* medical_terms.py: the functions.  A call returns [raised, exc, value].   *)

Returned(v) == [raised |-> FALSE, exc |-> "", value |-> v]
Raised(e) == [raised |-> TRUE, exc |-> e, value |-> <<>>]

\* the for loop of get_medical_translation, over the items from the i-th on
\* (the test on Len makes each iteration's text a value before the next one)
RECURSIVE TranslateLoop(_, _)
TranslateLoop(translated_text, i) ==
    IF Len(translated_text) >= 0 /\ i > Len(MEDICAL_TERMS_AR) THEN translated_text
    ELSE LET en_term == MEDICAL_TERMS_AR[i][1]
             ar_term == MEDICAL_TERMS_AR[i][2]
         IN  TranslateLoop(Replace(translated_text, en_term, Annotation(en_term, ar_term)),
                           i + 1)

get_medical_translation(text, target_lang) ==
    IF target_lang = "ar" THEN TranslateLoop(text, 1) ELSE text

\* faulty variant: the test for "image" without .lower()
get_medical_response_template_CaseSensitive(lang, user_input) ==
    LET kind == IF Contains(user_input, <<"i","m","a","g","e">>) \/ user_input = <<>>
                THEN "image_analysis" ELSE "general"
    IN  IF lang \in DOMAIN templates
        THEN Returned(templates[lang][kind])
        ELSE Raised("KeyError")

get_medical_response_template(lang, user_input) ==
    LET kind == IF Contains(Lower(user_input), <<"i","m","a","g","e">>) \/ user_input = <<>>
                THEN "image_analysis" ELSE "general"
    IN  IF lang \in DOMAIN templates
        THEN Returned(templates[lang][kind])
        ELSE Raised("KeyError")

get_medical_context_prompt(lang) ==
    IF lang \in DOMAIN prompts THEN Returned(prompts[lang]) ELSE Returned(prompts["en"])

-----------------------------------------------------------------------------
(* medical_terms.py: the inputs the functions are called with *)

Langs == {"en", "ar", "fr"}

Words == {<<"h","e","a","r","t">>, <<"H","e","a","r","t">>, <<"l","u","n","g","s">>, <<"c","h","e","s","t">>, <<"x","-","r","a","y">>, <<"n","o","r","m","a","l">>,
          <<"a","b","n","o","r","m","a","l">>, <<"c","t"," ","s","c","a","n">>, <<"s","c","a","n">>, <<"m","e","d","i","c","a","l"," ","i","m","a","g","e">>, <<"i","m","a","g","e">>,
          <<"s","h","o","w","s">>}

RECURSIVE Join(_)
Join(ws) ==
    IF ws = <<>> THEN <<>>
    ELSE IF Len(ws) = 1 THEN ws[1]
    ELSE ws[1] \o <<" ">> \o Join(Tail(ws))

Sentences == {<<"c","h","e","s","t"," ","x","-","r","a","y"," ","s","h","o","w","s"," ","n","o","r","m","a","l"," ","l","u","n","g","s">>, <<"c","t"," ","s","c","a","n"," ","s","h","o","w","s"," ","a"," ","f","r","a","c","t","u","r","e">>}

Texts ==
    Sentences \cup
    { Join(ws) : ws \in UNION { [1..n -> Words] : n \in 0..MaxWords } }

UserInputs == {<<>>, <<"i","m","a","g","e">>, <<"I","m","a","g","e">>, <<"w","h","a","t"," ","d","o","e","s"," ","t","h","i","s"," ","I","M","A","G","E"," ","s","h","o","w">>,
               <<"w","h","a","t"," ","i","s"," ","t","h","i","s">>, <<"i","s"," ","t","h","e"," ","h","e","a","r","t"," ","n","o","r","m","a","l">>, <<" ">>, <<"i","m","a","g">>}

\* a call: the function, its lang (target_lang) and text (text, user_input)
\* arguments, and how many times it has been applied (0: not yet called)
TermCalls ==
    [fn : {"get_medical_translation"}, lang : Langs, text : Texts, pass : {0}]
    \cup [fn : {"get_medical_response_template"}, lang : Langs, text : UserInputs, pass : {0}]
    \cup [fn : {"get_medical_context_prompt"}, lang : Langs, text : {<<>>}, pass : {0}]

NoCall == [fn |-> "none", lang |-> "", text |-> <<>>, pass |-> 0]

\* get_medical_translation(text, target_lang)
Translate ==
    /\ call.fn = "get_medical_translation"
    /\ call.pass = 0
    /\ call' = [call EXCEPT !.pass = 1]
    /\ ret' = Returned(get_medical_translation(call.text, call.lang))

\* get_medical_translation called again, on the text its last call returned
Retranslate ==
    /\ call.fn = "get_medical_translation"
    /\ call.pass >= 1
    /\ call.pass < MaxPasses
    /\ call' = [call EXCEPT !.text = ret.value, !.pass = @ + 1]
    /\ ret' = Returned(get_medical_translation(ret.value, call.lang))

\* get_medical_response_template(lang, user_input)
ResponseTemplate ==
    /\ call.fn = "get_medical_response_template"
    /\ call.pass = 0
    /\ call' = [call EXCEPT !.pass = 1]
    /\ ret' = get_medical_response_template(call.lang, call.text)

\* get_medical_context_prompt(lang)
ContextPrompt ==
    /\ call.fn = "get_medical_context_prompt"
    /\ call.pass = 0
    /\ call' = [call EXCEPT !.pass = 1]
    /\ ret' = get_medical_context_prompt(call.lang)

-----------------------------------------------------------------------------
(* streamlit_app.py: configuration *)

MAX_IMAGE_SIZE == <<512, 512>>
SUPPORTED_FORMATS == <<<<"j","p","g">>, <<"j","p","e","g">>, <<"p","n","g">>, <<"b","m","p">>, <<"t","i","f","f">>>>
MAX_FILE_SIZE == 10 * 1024 * 1024

-----------------------------------------------------------------------------
(* streamlit_app.py: class MedicalVQASystem *)

\* self.model: None, or the BLIP model with its dtype and the device it is on
NoModel == [obj |-> None, dtype |-> None, on |-> None]

Devices == {"cuda", "mps", "cpu"}

\* str(e) of the exceptions inference raises
InferenceErrors == {"out of memory", "index out of range"}

\* where a load_models call fails, if it does.  Moving the model to "cpu" is
\* a no-op, so "to" is a failure of the transfer to an accelerator.
LoadFailures == {"none", "clear_memory", "processor", "model", "to"}

\* load_models: the fields after it, and the bool it returns
load_models(self, fails_at) ==
    IF fails_at = "clear_memory"
    THEN [processor |-> self.processor, model |-> self.model, ret |-> FALSE]
    ELSE IF fails_at = "processor"
    THEN [processor |-> self.processor, model |-> self.model, ret |-> FALSE]
    ELSE IF fails_at = "model"
    THEN [processor |-> "BlipProcessor", model |-> self.model, ret |-> FALSE]
    ELSE LET loaded == [obj |-> "BlipForQuestionAnswering",
                        dtype |-> IF self.device = "cpu" THEN "float32" ELSE "float16",
                        on |-> "cpu"]
         IN  IF fails_at = "to" /\ self.device # "cpu"
             THEN [processor |-> "BlipProcessor", model |-> loaded, ret |-> FALSE]
             ELSE [processor |-> "BlipProcessor",
                   model |-> [loaded EXCEPT !.on = self.device], ret |-> TRUE]

\* what an uploaded file holds, and the PIL image Image.open makes of it
Contents == {"not_image", "rgb_small", "gray_large", "truncated"}

ImageOf(content) ==
    IF content = "rgb_small" THEN [mode |-> "RGB", size |-> <<256, 256>>, truncated |-> FALSE]
    ELSE IF content = "gray_large" THEN [mode |-> "L", size |-> <<1024, 768>>, truncated |-> FALSE]
    ELSE [mode |-> "L", size |-> <<1024, 768>>, truncated |-> TRUE]

Images == { ImageOf(c) : c \in Contents \ {"not_image"} }

\* _preprocess_image: convert and fit read the pixel data, which raises on a
\* truncated file
_preprocess_image(image) ==
    LET must_convert == image.mode # "RGB"
        must_resize == image.size[1] > MAX_IMAGE_SIZE[1] \/ image.size[2] > MAX_IMAGE_SIZE[2]
    IN  IF image.truncated /\ (must_convert \/ must_resize)
        THEN Raised("image file is truncated")
        ELSE Returned([mode |-> "RGB",
                       size |-> IF must_resize THEN MAX_IMAGE_SIZE ELSE image.size,
                       truncated |-> image.truncated])

\* what the model answers, before .strip()
Answers == {<<" ","n","o","r","m","a","l"," ">>, <<"f","r","a","c","t","u","r","e">>}

\* where inference fails by itself, if it does
InferenceFailures == {"none", "generate"}

\* faulty variant: the question is tested without .strip()
process_query_NoStrip(self, image, question, env) ==
    LET Failed(e) == [error |-> e, success |-> FALSE]
        pre == _preprocess_image(image)
    IN  IF question = <<>>
        THEN Failed("No valid question provided")
        ELSE IF pre.raised THEN Failed(pre.exc)
        ELSE IF self.processor = None THEN Failed("'NoneType' object is not callable")
        ELSE IF pre.value.truncated THEN Failed("image file is truncated")
        ELSE IF self.model.obj = None
        THEN Failed("'NoneType' object has no attribute 'generate'")
        ELSE IF self.model.on # self.device
        THEN Failed("Expected all tensors to be on the same device")
        ELSE IF env.fails_at = "generate" THEN Failed(env.exc)
        ELSE [question |-> question, answer |-> Strip(env.answer), success |-> TRUE]

\* process_query: the dict it returns.  env is where inference fails, the
\* exception text, and the decoded answer.
process_query(self, image, question, env) ==
    LET Failed(e) == [error |-> e, success |-> FALSE]
        pre == _preprocess_image(image)
    IN  IF question = <<>> \/ Strip(question) = <<>>
        THEN Failed("No valid question provided")
        ELSE IF pre.raised THEN Failed(pre.exc)
        ELSE IF self.processor = None THEN Failed("'NoneType' object is not callable")
        ELSE IF pre.value.truncated THEN Failed("image file is truncated")
        ELSE IF self.model.obj = None
        THEN Failed("'NoneType' object has no attribute 'generate'")
        ELSE IF self.model.on # self.device
        THEN Failed("Expected all tensors to be on the same device")
        ELSE IF env.fails_at = "generate" THEN Failed(env.exc)
        ELSE [question |-> question, answer |-> Strip(env.answer), success |-> TRUE]

Envs == [fails_at : InferenceFailures, exc : InferenceErrors, answer : Answers]

Self == [processor |-> processor, model |-> model, device |-> device]

-----------------------------------------------------------------------------
(* streamlit_app.py: validate_uploaded_file *)

NoFile == [present |-> FALSE, name |-> <<>>, size |-> 0, content |-> "not_image"]

\* name.split('.')[-1]
RECURSIVE LastSegment(_)
LastSegment(name) ==
    IF \E i \in 1..Len(name) : name[i] = "."
    THEN LastSegment(SubSeq(name, 1 + (CHOOSE i \in 1..Len(name) : name[i] = "."), Len(name)))
    ELSE name

\* faulty variant: the size is not checked
validate_uploaded_file_NoSizeCheck(file) ==
    IF ~file.present THEN <<FALSE, "No file uploaded">>
    ELSE IF ~(\E i \in 1..Len(SUPPORTED_FORMATS) :
                 SUPPORTED_FORMATS[i] = Lower(LastSegment(file.name)))
    THEN <<FALSE, "Unsupported file format. Supported formats: jpg, jpeg, png, bmp, tiff">>
    ELSE <<TRUE, "Valid file">>

validate_uploaded_file(file) ==
    IF ~file.present THEN <<FALSE, "No file uploaded">>
    ELSE IF file.size > MAX_FILE_SIZE
    THEN <<FALSE, "File size too large. Maximum size is 10.0MB">>
    ELSE IF ~(\E i \in 1..Len(SUPPORTED_FORMATS) :
                 SUPPORTED_FORMATS[i] = Lower(LastSegment(file.name)))
    THEN <<FALSE, "Unsupported file format. Supported formats: jpg, jpeg, png, bmp, tiff">>
    ELSE <<TRUE, "Valid file">>

-----------------------------------------------------------------------------
(* streamlit_app.py: main(), one run of the script per rerun *)

FileNames == {<<"s","c","a","n",".","p","n","g">>, <<"s","c","a","n",".","P","N","G">>, <<"x",".","r","a","y",".","j","p","e","g">>, <<"s","c","a","n",".","g","i","f">>, <<"p","n","g">>,
              <<"s","c","a","n">>, <<"s","c","a","n",".">>}
FileSizes == {1024, MAX_FILE_SIZE, MAX_FILE_SIZE + 1}
Files == [present : {TRUE}, name : FileNames, size : FileSizes, content : Contents]

Questions == {<<>>, <<" ">>, <<" ","\n">>, <<"w","h","y">>, <<" ","i","s"," ","i","t"," ","n","o","r","m","a","l"," ">>}

LoadFailedText ==
    "Failed to load AI models. Please refresh the page and try again. Check the logs for details or ensure an internet connection and compatible dependencies (transformers, torch)."

\* one st.* output: the call, its fixed text (without the emoji and markup),
\* and the text interpolated in it
Out(fn, text, detail) == [fn |-> fn, text |-> text, detail |-> detail]

NoWidgets == [file |-> NoFile, language |-> "en", question |-> <<>>,
              analyze_button |-> FALSE, opened |-> FALSE, pq_called |-> FALSE]
NoResult == [none |-> TRUE]

InitApp ==
    /\ processor = None
    /\ model = NoModel
    /\ pc = "start"
    /\ uploaded_file = NoFile
    /\ widgets = NoWidgets
    /\ rendered = <<>>
    /\ result = NoResult
    /\ history = [load_ok |-> FALSE, failed |-> FALSE]

\* lines 252-277: header, get_vqa_system(), load the models if model is None
MainLoad(fails_at) ==
    /\ pc = "start"
    /\ IF model.obj = None
       THEN LET r == load_models(Self, fails_at)
            IN  /\ processor' = r.processor
                /\ model' = r.model
                /\ history' = [history EXCEPT !.load_ok = @ \/ r.ret]
                /\ IF r.ret
                   THEN /\ rendered' = Append(rendered,
                               Out("success", "Medical AI models loaded successfully!", ""))
                        /\ pc' = "upload"
                   ELSE /\ rendered' = Append(rendered,
                               Out("error", LoadFailedText, ""))
                        /\ pc' = "stopped"
       ELSE /\ pc' = "upload"
            /\ UNCHANGED <<processor, model, history, rendered>>
    /\ UNCHANGED <<device, uploaded_file, widgets, result, call, ret>>

\* lines 282-309: the file uploader, validation and preview.  Image.open
\* raises on a file that is no image, st.image on one whose data is truncated.
MainUpload(file) ==
    /\ pc = "upload"
    /\ LET v == validate_uploaded_file(file)
       IN  IF file.present
           THEN IF v[1]
                THEN IF file.content \notin {"not_image", "truncated"}
                     THEN /\ rendered' = rendered \o
                                 <<Out("image", "Uploaded", ""), Out("info", "Image size", "")>>
                          /\ uploaded_file' = file
                          /\ widgets' = [widgets EXCEPT !.file = file, !.opened = TRUE]
                     ELSE /\ rendered' = Append(rendered,
                                 Out("error", "Error loading image",
                                     IF file.content = "not_image"
                                     THEN "cannot identify image file"
                                     ELSE "image file is truncated"))
                          /\ uploaded_file' = NoFile
                          /\ widgets' = [widgets EXCEPT !.file = file]
                ELSE /\ rendered' = Append(rendered, Out("error", v[2], ""))
                     /\ uploaded_file' = NoFile
                     /\ widgets' = [widgets EXCEPT !.file = file]
           ELSE /\ uploaded_file' = file
                /\ widgets' = [widgets EXCEPT !.file = file]
                /\ UNCHANGED rendered
    /\ pc' = "ask"
    /\ UNCHANGED <<processor, model, device, result, history, call, ret>>

\* lines 311-370: language, question, the Analyze button and the analysis.
\* Image.open of a file that opened in the upload section opens again, and
\* process_query raises nothing, so the except arm of line 369 is not taken.
MainAsk(language, question, analyze_button, env) ==
    /\ pc = "ask"
    /\ LET w == [widgets EXCEPT !.language = language, !.question = question,
                                !.analyze_button = analyze_button]
       IN  IF ~analyze_button
           THEN /\ widgets' = w
                /\ UNCHANGED <<rendered, result, history>>
           ELSE IF ~uploaded_file.present
           THEN /\ widgets' = w
                /\ rendered' = Append(rendered,
                       Out("warning", "Please upload a medical image first.", ""))
                /\ UNCHANGED <<result, history>>
           ELSE IF Strip(question) = <<>>
           THEN /\ widgets' = w
                /\ rendered' = Append(rendered,
                       Out("warning", "Please enter a medical question.", ""))
                /\ UNCHANGED <<result, history>>
           ELSE LET r == process_query(Self, ImageOf(uploaded_file.content), question, env)
                IN  /\ widgets' = [w EXCEPT !.pq_called = TRUE]
                    /\ result' = r
                    /\ history' = [history EXCEPT !.failed = @ \/ ~r.success]
                    /\ IF r.success
                       THEN rendered' = rendered \o
                                <<Out("markdown", "Analysis Results", ""),
                                  Out("markdown", "Question", ""),
                                  Out("markdown", "Answer", ""),
                                  Out("markdown", "Processing Time", "")>>
                       ELSE rendered' = Append(rendered,
                                Out("error", "Analysis failed", r.error))
    /\ pc' = "sidebar"
    /\ UNCHANGED <<processor, model, device, uploaded_file, call, ret>>

\* vqa_system.device.upper()
Upper == [cuda |-> "CUDA", mps |-> "MPS", cpu |-> "CPU"]

\* lines 372-408: the sidebar's system status, and the footer
MainSidebar ==
    /\ pc = "sidebar"
    /\ rendered' = rendered \o
           (IF model.obj # None
            THEN <<Out("success", "AI Models: Loaded", ""), Out("info", "Device", Upper[device])>>
            ELSE <<Out("error", "AI Models: Not Loaded", "")>>)
    /\ pc' = "done"
    /\ UNCHANGED <<processor, model, device, uploaded_file, widgets, result, history,
                   call, ret>>

\* a widget interaction or a page refresh reruns the script from the top;
\* the system cached by st.cache_resource (get_vqa_system) is kept
Rerun ==
    /\ pc \in {"done", "stopped"}
    /\ pc' = "start"
    /\ uploaded_file' = NoFile
    /\ widgets' = NoWidgets
    /\ rendered' = <<>>
    /\ result' = NoResult
    /\ UNCHANGED <<processor, model, device, history, call, ret>>

-----------------------------------------------------------------------------
(* The MedicalVQASystem methods called directly, by any caller *)

CallLoadModels(fails_at) ==
    /\ LET r == load_models(Self, fails_at)
       IN  /\ processor' = r.processor
           /\ model' = r.model
           /\ history' = [history EXCEPT !.load_ok = @ \/ r.ret]
           /\ call' = [fn |-> "load_models", fails_at |-> fails_at, returned |-> r.ret]
    /\ UNCHANGED <<device, pc, uploaded_file, widgets, rendered, result, ret>>

CallProcessQuery(image, question, env) ==
    /\ LET r == process_query(Self, image, question, env)
       IN  /\ result' = r
           /\ history' = [history EXCEPT !.failed = @ \/ ~r.success]
    /\ call' = [fn |-> "process_query", image |-> image, question |-> question, env |-> env]
    /\ UNCHANGED <<processor, model, device, pc, uploaded_file, widgets, rendered, ret>>

-----------------------------------------------------------------------------
(* Specifications *)

\* the script and the cached system
Init ==
    /\ call = NoCall
    /\ ret = Returned(<<>>)
    /\ InitApp
    /\ device \in Devices

Next ==
    \/ \E f \in LoadFailures : MainLoad(f)
    \/ \E file \in Files \cup {NoFile} : MainUpload(file)
    \/ \E language \in {"en", "ar"}, question \in Questions,
          analyze_button \in BOOLEAN, env \in Envs :
          MainAsk(language, question, analyze_button, env)
    \/ MainSidebar
    \/ Rerun

Spec == Init /\ [][Next]_vars

\* the functions of medical_terms.py, each applied to the arguments drawn
InitT ==
    /\ call \in TermCalls
    /\ ret = Returned(<<>>)
    /\ InitApp
    /\ device = "cpu"

NextT ==
    \/ Translate /\ UNCHANGED appVars
    \/ Retranslate /\ UNCHANGED appVars
    \/ ResponseTemplate /\ UNCHANGED appVars
    \/ ContextPrompt /\ UNCHANGED appVars

SpecTerms == InitT /\ [][NextT]_vars

\* the methods of MedicalVQASystem
NextAPI ==
    \/ \E f \in LoadFailures : CallLoadModels(f)
    \/ \E image \in Images, question \in Questions, env \in Envs :
          CallProcessQuery(image, question, env)

SpecAPI == Init /\ [][NextAPI]_vars

-----------------------------------------------------------------------------
(* Properties of medical_terms.py, checked under SpecTerms *)

Keys == { MEDICAL_TERMS_AR[i][1] : i \in 1..Len(MEDICAL_TERMS_AR) }

\* MEDICAL_TERMS_AR[key]
TermOf(key) ==
    MEDICAL_TERMS_AR[CHOOSE i \in 1..Len(MEDICAL_TERMS_AR) : MEDICAL_TERMS_AR[i][1] = key][2]

\* the "(translation)" a key's occurrence is followed by once annotated
Suffix(key) == <<" ","(">> \o TermOf(key) \o <<")">>

Annotated(key) == key \o Suffix(key)

\* the translation call has been applied once, to an input text, for Arabic
TranslatedOnce ==
    call.fn = "get_medical_translation" /\ call.lang = "ar" /\ call.pass = 1

\* C1: annotating is idempotent: a second pass over the text a first pass
\* returned gives that text back (no term is annotated again).
C1_Idempotent ==
    (call.fn = "get_medical_translation" /\ call.lang = "ar" /\ call.pass >= 2)
        => ret.value = call.text

\* the number of non-overlapping occurrences of p in s
RECURSIVE CountFrom(_, _, _)
CountFrom(s, p, i) ==
    LET j == Find(s, p, i)
    IN  IF j = 0 THEN 0 ELSE 1 + CountFrom(s, p, j + Len(p))

Count(s, p) == CountFrom(s, p, 1)

\* the multi-word keys, each with the shorter key it contains
MultiWordKeys == {<<<<"c","t"," ","s","c","a","n">>, <<"s","c","a","n">>>>, <<<<"m","e","d","i","c","a","l"," ","i","m","a","g","e">>, <<"i","m","a","g","e">>>>}

\* C2: a multi-word key is annotated once, as a unit, with its own
\* translation, and the shorter key inside it is not annotated as well: the
\* short key's annotation appears only for its occurrences outside the
\* multi-word key.
C2_MultiWordPrecedence ==
    TranslatedOnce =>
        \A p \in MultiWordKeys :
            Contains(call.text, p[1]) =>
                /\ Contains(ret.value, Annotated(p[1]))
                /\ Count(ret.value, Suffix(p[2]))
                       = Count(call.text, p[2]) - Count(call.text, p[1])

ChestXRay == <<"c","h","e","s","t"," ","x","-","r","a","y"," ","s","h","o","w","s"," ","n","o","r","m","a","l"," ","l","u","n","g","s">>

\* C3: every dictionary term of the text is annotated with its own
\* translation and the rest is untouched: the sentence "chest x-ray shows
\* normal lungs" comes out with chest, x-ray, normal and lungs annotated each
\* with its own entry, a text that is a dictionary key comes out as that key
\* annotated, and a text holding no key comes out unchanged.
C3_OwnTranslation ==
    TranslatedOnce =>
        /\ call.text = ChestXRay =>
               ret.value = Join(<<Annotated(<<"c","h","e","s","t">>), Annotated(<<"x","-","r","a","y">>), <<"s","h","o","w","s">>,
                                  Annotated(<<"n","o","r","m","a","l">>), Annotated(<<"l","u","n","g","s">>)>>)
        /\ call.text \in Keys => ret.value = Annotated(call.text)
        /\ (\A k \in Keys : ~Contains(call.text, k)) => ret.value = call.text

\* C4: matching is case-insensitive: a text is annotated as its lower-case
\* form is, whatever the letter case its terms appear in.
C4_CaseInsensitive ==
    TranslatedOnce =>
        Lower(ret.value) = Lower(get_medical_translation(Lower(call.text), "ar"))

\* the kind a user input selects: image analysis when it is empty or holds
\* "image" in any letter case, general otherwise
IsImageKind(user_input) ==
    user_input = <<>> \/ \E i \in 1..Len(user_input) : OccursAt(Lower(user_input), <<"i","m","a","g","e">>, i)

KindOf(user_input) == IF IsImageKind(user_input) THEN "image_analysis" ELSE "general"

\* C5: an unknown language code falls back to English and nothing is raised:
\* the template is the English one the user input selects, the prompt is the
\* English prompt.
C5_UnknownLangFallsBack ==
    (call.pass = 1 /\ call.lang \notin {"en", "ar"}) =>
        /\ call.fn = "get_medical_response_template" =>
               ~ret.raised /\ ret.value = templates["en"][KindOf(call.text)]
        /\ call.fn = "get_medical_context_prompt" =>
               ~ret.raised /\ ret.value = prompts["en"]

\* C6: for a supported language the template returned is a non-empty string,
\* and it differs from the one any user input of the other kind gets in that
\* language.
C6_TemplatePerKind ==
    (call.fn = "get_medical_response_template" /\ call.pass = 1
         /\ call.lang \in {"en", "ar"}) =>
        /\ ~ret.raised
        /\ Len(ret.value) > 0
        /\ \A u \in UserInputs :
               IsImageKind(u) # IsImageKind(call.text) =>
                   get_medical_response_template(call.lang, u).value # ret.value

\* C6 witness: the Arabic template for an input naming the IMAGE in capitals
C6_Witness ==
    /\ call.fn = "get_medical_response_template"
    /\ call.pass = 1
    /\ call.lang = "ar"
    /\ call.text = <<"w","h","a","t"," ","d","o","e","s"," ","t","h","i","s"," ","I","M","A","G","E"," ","s","h","o","w">>
    /\ ret = Returned(TEMPLATE_AR_IMAGE_ANALYSIS)

-----------------------------------------------------------------------------
(* Properties of main(), checked under Spec *)

FailureTexts == {LoadFailedText, "Analysis failed", "Processing error"}

\* C7: no error shown after a load_models or process_query failure carries
\* the exception's text.
C7_NoRawExceptionText ==
    \A i \in 1..Len(rendered) :
        (rendered[i].fn = "error" /\ rendered[i].text \in FailureTexts)
            => rendered[i].detail = ""

\* the file passes validation: at most 10 MB, and its extension, in lower
\* case, is a supported format
IsValidFile(file) ==
    /\ file.present
    /\ file.size <= 10 * 1024 * 1024
    /\ Lower(LastSegment(file.name)) \in {<<"j","p","g">>, <<"j","p","e","g">>, <<"p","n","g">>, <<"b","m","p">>, <<"t","i","f","f">>}

Shown(fns) == { i \in 1..Len(rendered) : rendered[i].fn \in fns }

\* C9: process_query is called on an Analyze click only with an uploaded file
\* that is valid and opened as an image and a question that is not blank;
\* on any other Analyze click a warning or an error is shown and there is no
\* result; a file that is too large is reported as too large, whatever its
\* extension.
C9_InferenceGated ==
    /\ widgets.pq_called =>
           /\ widgets.analyze_button
           /\ IsValidFile(widgets.file)
           /\ widgets.file.content \notin {"not_image", "truncated"}
           /\ Strip(widgets.question) # <<>>
    /\ (pc \in {"sidebar", "done"} /\ widgets.analyze_button /\ ~widgets.pq_called) =>
           /\ Shown({"warning", "error"}) # {}
           /\ result = NoResult
    /\ (pc \in {"ask", "sidebar", "done"} /\ widgets.file.present
            /\ widgets.file.size > 10 * 1024 * 1024) =>
           /\ \E i \in Shown({"error"}) :
                  rendered[i].text = "File size too large. Maximum size is 10.0MB"
           /\ \A i \in Shown({"error"}) :
                  rendered[i].text
                      # "Unsupported file format. Supported formats: jpg, jpeg, png, bmp, tiff"

\* C9 witness: the analysis ran on a file of exactly 10 MB named in capitals
C9_Witness ==
    /\ widgets.pq_called
    /\ widgets.file.name = <<"s","c","a","n",".","P","N","G">>
    /\ widgets.file.size = 10 * 1024 * 1024
    /\ result.success

\* C10: the analysis is reached only on a system on which a load_models call
\* returned True, with the processor and the model loaded and the model on
\* the device.
C10_AnalysisOnlyAfterLoad ==
    widgets.pq_called =>
        /\ history.load_ok
        /\ processor # None
        /\ model.obj # None
        /\ model.on = device

-----------------------------------------------------------------------------
(* Properties of MedicalVQASystem.process_query, checked under SpecAPI *)

\* the call of process_query cannot succeed: blank question, preprocessing
\* fails, or inference fails
CallFails ==
    \/ Strip(call.question) = <<>>
    \/ call.image.truncated
    \/ processor = None
    \/ model.obj = None
    \/ model.on # device
    \/ call.env.fails_at # "none"

C8_ResultShape ==
    call.fn = "process_query" =>
        /\ CallFails =>
               /\ DOMAIN result = {"error", "success"}
               /\ result.success = FALSE
               /\ result.error # ""
        /\ ~CallFails =>
               /\ DOMAIN result = {"question", "answer", "success"}
               /\ result.success = TRUE
               /\ result.question = call.question
               /\ result.answer = Strip(call.env.answer)

\* a valid interaction (good image, a question, inference not failing by
\* itself) is analysed successfully by the system as it is
Usable ==
    process_query(Self, ImageOf("gray_large"), <<"w","h","y">>,
                  [fails_at |-> "none", exc |-> "", answer |-> <<"f","r","a","c","t","u","r","e">>]).success

\* C8: process_query returns a failure dict (success False and an error)
\* when the question is blank or preprocessing or inference fails, a success
\* dict with the question and the answer otherwise; and no call of it
\* changes the processor, the model or the device, so a system that could
\* analyse a valid interaction before the call still can after it.
C8_FailsIndependently ==
    /\ []C8_ResultShape
    /\ [][call'.fn = "process_query" =>
              /\ UNCHANGED <<processor, model, device>>
              /\ Usable => Usable']_vars

\* C8 witness: a call succeeded on a system on which an earlier call failed
C8_Witness ==
    /\ call.fn = "process_query"
    /\ history.failed
    /\ Usable
    /\ result.success = TRUE
    /\ result.question = <<" ","i","s"," ","i","t"," ","n","o","r","m","a","l"," ">>

====
